---- MODULE Spec2Model ----
(***************************************************************************)
(* Model of smart_pointers.cpp: UniquePtr, SharedPtr, WeakPtr and the     *)
(* heap cells they manage (the managed objects and the std::atomic<int>   *)
(* reference counters).                                                   *)
(*                                                                         *)
(* Handles live in numbered slots (a slot is a variable of the caller: it  *)
(* either holds a constructed handle or not).  Heap cells are numbered;   *)
(* 0 is nullptr.  A cell is "unalloc" before its new-expression, "alloc"  *)
(* while live and "freed" after its delete-expression.                    *)
(*                                                                         *)
(* Undefined behaviour:                                                    *)
(*  - a read of a freed counter yields any value of 0..MaxStale, a write  *)
(*    to it is recorded in mem.uaf;                                        *)
(*  - a dereference of a null counter pointer stops the program           *)
(*    (mem.crashed);                                                       *)
(*  - a second delete of a cell either goes unnoticed or stops the        *)
(*    program.                                                             *)
(*                                                                         *)
(* Spec, SpecShared and SpecUnique take one member function call per step  *)
(* (one thread).  SpecConc takes one access to shared storage per step and *)
(* interleaves the threads.  last records the latest call and its result.  *)
(***************************************************************************)
EXTENDS Integers, FiniteSets, Sequences, TLC

\* ---------------------------------------------------------------- bounds
NumShared == 2
NumWeak == 2
NumUnique == 3
MaxBlocks == 2
MaxObjs == 2
MaxStale == 1
MaxTally == 2
NumThreads == 2
PerThread == 2
MaxLive == 3

Null == 0
SharedSlots == 1..NumShared
Threads == 1..NumThreads
\* the SharedPtr variables of thread t: PerThread locals each
OwnSlots(t) == ((t - 1) * PerThread + 1)..(t * PerThread)
AllShared == SharedSlots \cup UNION {OwnSlots(t) : t \in Threads}
WeakSlots == 1..NumWeak
UniqueSlots == 1..NumUnique
Blk == 1..MaxBlocks
Obj == 1..MaxObjs

VARIABLES sp, wp, up, mem, last, thr

vars == <<sp, wp, up, mem, last, thr>>

\* ------------------------------------------------------------ small helpers
Min(a, b) == IF a < b THEN a ELSE b

Tally(n) == Min(n + 1, MaxTally)

\* a handle slot that holds no constructed handle
NoHandle == [live |-> FALSE, ptr_ |-> Null, refCount_ |-> Null]

NoUnique == [live |-> FALSE, ptr_ |-> Null]

Op(o, a, b, r) == [op |-> o, a |-> a, b |-> b, ret |-> r]

\* a new handle is declared in the first variable that holds none (which
\* variable a caller declares it in makes no difference to the handles)
FirstFree(f, S) == CHOOSE x \in S : ~f[x].live /\ \A y \in S : y < x => f[y].live

\* a thread between two operations
Idle == [pc |-> "idle", s |-> 0, w |-> 0]

\* --------------------------------------------------------------- the heap
\* the lowest cell a new-expression has not handed out yet (0: none left)
FreshObj(m) ==
  IF \E o \in Obj : m.ost[o] = "unalloc"
  THEN CHOOSE o \in Obj : m.ost[o] = "unalloc" /\ \A p \in Obj : p < o => m.ost[p] # "unalloc"
  ELSE Null

FreshBlk(m) ==
  IF \E c \in Blk : m.cst[c] = "unalloc"
  THEN CHOOSE c \in Blk : m.cst[c] = "unalloc" /\ \A d \in Blk : d < c => m.cst[d] # "unalloc"
  ELSE Null

\* new T(...)
NewObj(m, o) == [m EXCEPT !.ost[o] = "alloc"]

\* new std::atomic<int>(1)
NewCounter(m, c) == [m EXCEPT !.cst[c] = "alloc", !.cnt[c] = 1]

\* delete ptr: the set of outcomes
DeleteObj(m, o) ==
  IF o = Null THEN {m}
  ELSE IF m.ost[o] = "alloc"
  THEN {[m EXCEPT !.ost[o] = "freed", !.odel[o] = Tally(@)]}
  ELSE {[m EXCEPT !.odel[o] = Tally(@)],
        [m EXCEPT !.odel[o] = Tally(@), !.crashed = TRUE]}

\* delete refCount_: the set of outcomes
DeleteCounter(m, c) ==
  IF m.cst[c] = "alloc"
  THEN {[m EXCEPT !.cst[c] = "freed", !.cfree[c] = Tally(@)]}
  ELSE {[m EXCEPT !.cfree[c] = Tally(@), !.uaf = TRUE],
        [m EXCEPT !.cfree[c] = Tally(@), !.uaf = TRUE, !.crashed = TRUE]}

\* *refCount_ (atomic load): the set of <<memory, value read>>
AtomicLoad(m, c) ==
  IF c = Null THEN {<<[m EXCEPT !.crashed = TRUE], 0>>}
  ELSE IF m.cst[c] = "alloc" THEN {<<m, m.cnt[c]>>}
  ELSE {<<[m EXCEPT !.uaf = TRUE], v>> : v \in 0..MaxStale}

\* (*refCount_)++ (atomic fetch-add): the set of outcomes
AtomicIncNoop(m, c) == {m}

AtomicInc(m, c) ==
  IF c = Null THEN {[m EXCEPT !.crashed = TRUE]}
  ELSE IF m.cst[c] = "alloc" THEN {[m EXCEPT !.cnt[c] = @ + 1]}
  ELSE {[m EXCEPT !.uaf = TRUE]}

\* (*refCount_)-- in place of --(*refCount_): the value before the decrement
AtomicDecOld(m, c) ==
  IF c = Null THEN {<<[m EXCEPT !.crashed = TRUE], 0>>}
  ELSE IF m.cst[c] = "alloc" THEN {<<[m EXCEPT !.cnt[c] = @ - 1], m.cnt[c]>>}
  ELSE {<<[m EXCEPT !.uaf = TRUE], v>> : v \in 0..MaxStale}

\* --(*refCount_) (atomic fetch-sub): the set of <<memory, new value>>
AtomicDec(m, c) ==
  IF c = Null THEN {<<[m EXCEPT !.crashed = TRUE], 0>>}
  ELSE IF m.cst[c] = "alloc" THEN {<<[m EXCEPT !.cnt[c] = @ - 1], m.cnt[c] - 1>>}
  ELSE {<<[m EXCEPT !.uaf = TRUE], v>> : v \in 0..MaxStale}

\* ------------------------------------------------------------- SharedPtr
\* decrementAndDelete() that frees the counter only together with an object
decrementAndDeleteKeep(m, h) ==
  UNION { IF d[1].crashed THEN {d[1]}
          ELSE IF d[2] = 0 /\ h.ptr_ # Null
          THEN UNION { IF m2.crashed THEN {m2} ELSE DeleteCounter(m2, h.refCount_)
                       : m2 \in DeleteObj(d[1], h.ptr_) }
          ELSE {d[1]}
          : d \in AtomicDec(m, h.refCount_) }

\* void decrementAndDelete(): the set of outcomes for handle h
decrementAndDelete(m, h) ==
  UNION { IF d[1].crashed THEN {d[1]}
          ELSE IF d[2] = 0
          THEN UNION { IF m2.crashed THEN {m2} ELSE DeleteCounter(m2, h.refCount_)
                       : m2 \in DeleteObj(d[1], h.ptr_) }
          ELSE {d[1]}
          : d \in AtomicDec(m, h.refCount_) }

\* int use_count() const: the set of <<memory, value>>
use_count(m, h) == AtomicLoad(m, h.refCount_)

\* explicit SharedPtr(T* ptr = nullptr); withObj: the caller passes new T
SharedCtor(s, withObj) ==
  /\ ~mem.crashed
  /\ ~sp[s].live
  /\ s = FirstFree(sp, SharedSlots)
  /\ FreshBlk(mem) # Null
  /\ withObj => FreshObj(mem) # Null
  /\ LET o == IF withObj THEN FreshObj(mem) ELSE Null
         m1 == IF withObj THEN NewObj(mem, o) ELSE mem
         c == FreshBlk(m1)
     IN /\ mem' = NewCounter(m1, c)
        /\ sp' = [sp EXCEPT ![s] = [live |-> TRUE, ptr_ |-> o, refCount_ |-> c]]
        /\ last' = Op("ctor", 0, 0, c)
  /\ UNCHANGED <<thr, wp, up>>

\* SharedPtr(T* ptr) when new std::atomic<int>(1) at line 58 throws
\* std::bad_alloc: the exception leaves the constructor, no handle exists;
\* withObj: the caller had passed new T
SharedCtorBadAlloc(s, withObj) ==
  /\ ~mem.crashed
  /\ ~sp[s].live
  /\ s = FirstFree(sp, SharedSlots)
  /\ withObj => FreshObj(mem) # Null
  /\ LET o == IF withObj THEN FreshObj(mem) ELSE Null
     IN /\ mem' = IF withObj THEN NewObj(mem, o) ELSE mem
        /\ last' = Op("ctor_bad_alloc", 0, o, 0)
  /\ UNCHANGED <<thr, sp, wp, up>>

\* SharedPtr<T> make_shared(Args&&... args): new T(...) at line 144, then
\* SharedPtr<T>(T*) at line 58; fail: the new-expression that throws
\* std::bad_alloc ("object", "counter") or "none"
MakeShared(s, fail) ==
  /\ ~mem.crashed
  /\ ~sp[s].live
  /\ s = FirstFree(sp, SharedSlots)
  /\ IF fail = "object"
     THEN /\ mem' = mem
          /\ sp' = sp
          /\ last' = Op("make_shared_bad_alloc", 0, Null, 0)
     ELSE /\ FreshObj(mem) # Null
          /\ LET o == FreshObj(mem)
                 m1 == NewObj(mem, o)
             IN IF fail = "counter"
                THEN /\ mem' = m1
                     /\ sp' = sp
                     /\ last' = Op("make_shared_bad_alloc", 0, o, 0)
                ELSE /\ FreshBlk(m1) # Null
                     /\ mem' = NewCounter(m1, FreshBlk(m1))
                     /\ sp' = [sp EXCEPT ![s] = [live |-> TRUE, ptr_ |-> o,
                                                 refCount_ |-> FreshBlk(m1)]]
                     /\ last' = Op("make_shared", s, o, FreshBlk(m1))
  /\ UNCHANGED <<thr, wp, up>>

\* SharedPtr(const SharedPtr& other)
SharedCopyCtor(s, other) ==
  /\ ~mem.crashed
  /\ ~sp[s].live
  /\ s = FirstFree(sp, SharedSlots)
  /\ sp[other].live
  /\ \E m1 \in AtomicInc(mem, sp[other].refCount_) :
       /\ mem' = m1
       /\ sp' = IF m1.crashed THEN sp
                ELSE [sp EXCEPT ![s] = sp[other]]
       /\ last' = Op("copy", 0, 0, 0)
  /\ UNCHANGED <<thr, wp, up>>

\* SharedPtr& operator=(const SharedPtr& other)
SharedCopyAssign(s, other) ==
  /\ ~mem.crashed
  /\ sp[s].live
  /\ sp[other].live
  /\ IF s # other
     THEN \E m1 \in decrementAndDelete(mem, sp[s]) :
            IF m1.crashed
            THEN mem' = m1 /\ sp' = sp
            ELSE \E m2 \in AtomicInc(m1, sp[other].refCount_) :
                   /\ mem' = m2
                   /\ sp' = [sp EXCEPT ![s] = sp[other]]
     ELSE mem' = mem /\ sp' = sp
  /\ last' = Op("assign", s, other, 0)
  /\ UNCHANGED <<thr, wp, up>>

\* SharedPtr(SharedPtr&& other)
SharedMoveCtor(s, other) ==
  /\ ~mem.crashed
  /\ ~sp[s].live
  /\ s = FirstFree(sp, SharedSlots)
  /\ sp[other].live
  /\ sp' = [sp EXCEPT ![s] = sp[other],
                      ![other] = [live |-> TRUE, ptr_ |-> Null, refCount_ |-> Null]]
  /\ last' = Op("move", s, other, 0)
  /\ UNCHANGED <<thr, wp, up, mem>>

\* operator=(SharedPtr&&) without the (this != &other) test of line 81
SharedMoveAssignNoSelfCheck(s, other) ==
  /\ ~mem.crashed
  /\ sp[s].live
  /\ sp[other].live
  /\ \E m1 \in decrementAndDelete(mem, sp[s]) :
       /\ mem' = m1
       /\ sp' = IF m1.crashed THEN sp
                ELSE [sp EXCEPT ![s] = sp[other],
                                ![other] = [live |-> TRUE, ptr_ |-> Null,
                                            refCount_ |-> Null]]
  /\ last' = Op("moveassign", s, other, 0)
  /\ UNCHANGED <<thr, wp, up>>

\* SharedPtr& operator=(SharedPtr&& other)
SharedMoveAssign(s, other) ==
  /\ ~mem.crashed
  /\ sp[s].live
  /\ sp[other].live
  /\ IF s # other
     THEN \E m1 \in decrementAndDelete(mem, sp[s]) :
            /\ mem' = m1
            /\ sp' = IF m1.crashed THEN sp
                     ELSE [sp EXCEPT ![s] = sp[other],
                                     ![other] = [live |-> TRUE, ptr_ |-> Null,
                                                 refCount_ |-> Null]]
     ELSE mem' = mem /\ sp' = sp
  /\ last' = Op("moveassign", s, other, 0)
  /\ UNCHANGED <<thr, wp, up>>

\* ~SharedPtr()
SharedDtor(s) ==
  /\ ~mem.crashed
  /\ sp[s].live
  /\ \E m1 \in decrementAndDelete(mem, sp[s]) :
       /\ mem' = m1
       /\ sp' = IF m1.crashed THEN sp ELSE [sp EXCEPT ![s] = NoHandle]
  /\ last' = Op("dtor", s, 0, 0)
  /\ UNCHANGED <<thr, wp, up>>

\* a call of use_count() on handle s
SharedUseCount(s) ==
  /\ ~mem.crashed
  /\ sp[s].live
  /\ \E r \in use_count(mem, sp[s]) :
       /\ mem' = r[1]
       /\ last' = Op("use_count", s, 0, r[2])
  /\ UNCHANGED <<thr, sp, wp, up>>

\* --------------------------------------------------------------- WeakPtr
\* bool expired() const: the set of <<memory, result>>
expiredNullOnly(m, h) == {<<m, h.refCount_ = Null>>}

expired(m, h) ==
  IF h.refCount_ = Null THEN {<<m, TRUE>>}
  ELSE {<<r[1], r[2] = 0>> : r \in AtomicLoad(m, h.refCount_)}

\* SharedPtr<T>(*this) at line 125: the constructor of a SharedPtr from a
\* WeakPtr, which the source calls and does not define.  It attaches to the
\* observer's block and object and increments the strong count.
\* The set of <<memory, new handle>>.
SharedFromWeak(m, h) ==
  {<<m1, [live |-> TRUE, ptr_ |-> h.ptr_, refCount_ |-> h.refCount_]>> :
     m1 \in AtomicInc(m, h.refCount_)}

\* SharedPtr<T>(): the set of <<memory, new handle>>
SharedDefault(m) ==
  {<<NewCounter(m, FreshBlk(m)),
     [live |-> TRUE, ptr_ |-> Null, refCount_ |-> FreshBlk(m)]>>}

\* SharedPtr<T> lock() const: the set of <<memory, returned handle>>
lock(m, h) ==
  UNION { IF ~e[2] THEN SharedFromWeak(e[1], h) ELSE SharedDefault(e[1])
          : e \in expired(m, h) }

\* WeakPtr()
WeakDefaultCtor(w) ==
  /\ ~mem.crashed
  /\ ~wp[w].live
  /\ w = FirstFree(wp, WeakSlots)
  /\ wp' = [wp EXCEPT ![w] = [live |-> TRUE, ptr_ |-> Null, refCount_ |-> Null]]
  /\ last' = Op("wdefault", 0, 0, 0)
  /\ UNCHANGED <<thr, sp, up, mem>>

\* WeakPtr(const SharedPtr<T>&) taking a share of the ownership: ++(*refCount_)
WeakFromSharedInc(w, other) ==
  /\ ~mem.crashed
  /\ ~wp[w].live
  /\ w = FirstFree(wp, WeakSlots)
  /\ sp[other].live
  /\ \E m1 \in AtomicInc(mem, sp[other].refCount_) :
       /\ mem' = m1
       /\ wp' = IF m1.crashed THEN wp ELSE [wp EXCEPT ![w] = sp[other]]
  /\ last' = Op("wfromshared", 0, 0, 0)
  /\ UNCHANGED <<thr, sp, up>>

\* WeakPtr(const SharedPtr<T>& other)
WeakFromShared(w, other) ==
  /\ ~mem.crashed
  /\ ~wp[w].live
  /\ w = FirstFree(wp, WeakSlots)
  /\ sp[other].live
  /\ wp' = [wp EXCEPT ![w] = sp[other]]
  /\ last' = Op("wfromshared", 0, 0, 0)
  /\ UNCHANGED <<thr, sp, up, mem>>

\* WeakPtr(const WeakPtr& other)
WeakCopyCtor(w, other) ==
  /\ ~mem.crashed
  /\ ~wp[w].live
  /\ w = FirstFree(wp, WeakSlots)
  /\ wp[other].live
  /\ wp' = [wp EXCEPT ![w] = wp[other]]
  /\ last' = Op("wcopy", 0, 0, 0)
  /\ UNCHANGED <<thr, sp, up, mem>>

\* WeakPtr& operator=(const WeakPtr& other)
WeakAssign(w, other) ==
  /\ ~mem.crashed
  /\ wp[w].live
  /\ wp[other].live
  /\ wp' = [wp EXCEPT ![w] = wp[other]]
  /\ last' = Op("wassign", w, other, 0)
  /\ UNCHANGED <<thr, sp, up, mem>>

\* ~WeakPtr() (implicit: the class declares none)
WeakDtor(w) ==
  /\ ~mem.crashed
  /\ wp[w].live
  /\ wp' = [wp EXCEPT ![w] = NoHandle]
  /\ last' = Op("wdtor", 0, 0, 0)
  /\ UNCHANGED <<thr, sp, up, mem>>

\* a call of expired() on observer w
WeakExpired(w) ==
  /\ ~mem.crashed
  /\ wp[w].live
  /\ \E e \in expired(mem, wp[w]) :
       /\ mem' = e[1]
       /\ last' = Op("expired", w, 0, e[2])
  /\ UNCHANGED <<thr, sp, wp, up>>

\* SharedPtr<T> s = w.lock();
WeakLock(s, w) ==
  /\ ~mem.crashed
  /\ ~sp[s].live
  /\ s = FirstFree(sp, SharedSlots)
  /\ wp[w].live
  /\ FreshBlk(mem) # Null
  /\ \E r \in lock(mem, wp[w]) :
       /\ mem' = r[1]
       /\ sp' = IF r[1].crashed THEN sp ELSE [sp EXCEPT ![s] = r[2]]
       /\ last' = Op("lock", s, w, r[2].ptr_)
  /\ UNCHANGED <<thr, wp, up>>

\* ------------------------------------------------------------- UniquePtr
\* CustomDeleter<T>::operator()(T* ptr): the set of outcomes
CustomDeleter(m, o) == DeleteObj([m EXCEPT !.dcalls[o] = Tally(@)], o)

\* void delete_(): the set of <<memory, handle afterwards>>
delete_Skip(m, h) == {<<m, [h EXCEPT !.ptr_ = Null]>>}

delete_(m, h) ==
  IF h.ptr_ # Null
  THEN {<<m1, [h EXCEPT !.ptr_ = Null]>> : m1 \in CustomDeleter(m, h.ptr_)}
  ELSE {<<m, h>>}

\* explicit UniquePtr(T* ptr = nullptr); withObj: the caller passes new T
\* (make_unique<T>(args...) is this with withObj)
UniqueCtor(u, withObj) ==
  /\ ~mem.crashed
  /\ ~up[u].live
  /\ u = FirstFree(up, UniqueSlots)
  /\ withObj => FreshObj(mem) # Null
  /\ LET o == IF withObj THEN FreshObj(mem) ELSE Null
     IN /\ mem' = IF withObj THEN NewObj(mem, o) ELSE mem
        /\ up' = [up EXCEPT ![u] = [live |-> TRUE, ptr_ |-> o]]
        /\ last' = Op("uctor", 0, 0, 0)
  /\ UNCHANGED <<thr, sp, wp>>

\* ~UniquePtr(); last.b: the pointer held, last.ret: 1 when the handle is
\* the source of the move that came right before
UniqueDtor(u) ==
  /\ ~mem.crashed
  /\ up[u].live
  /\ \E r \in delete_(mem, up[u]) :
       /\ mem' = r[1]
       /\ up' = IF r[1].crashed THEN up ELSE [up EXCEPT ![u] = NoUnique]
  /\ last' = Op("udtor", u, up[u].ptr_,
                IF last.op \in {"umove", "umoveassign"} /\ last.b = u /\ last.a # u
                THEN 1 ELSE 0)
  /\ UNCHANGED <<thr, sp, wp>>

\* UniquePtr(UniquePtr&& other)
UniqueMoveCtorKeep(u, other) ==
  /\ ~mem.crashed
  /\ ~up[u].live
  /\ u = FirstFree(up, UniqueSlots)
  /\ up[other].live
  /\ up' = [up EXCEPT ![u] = [live |-> TRUE, ptr_ |-> up[other].ptr_]]
  /\ last' = Op("umove", u, other, up[other].ptr_)
  /\ UNCHANGED <<thr, sp, wp, mem>>

UniqueMoveCtor(u, other) ==
  /\ ~mem.crashed
  /\ ~up[u].live
  /\ u = FirstFree(up, UniqueSlots)
  /\ up[other].live
  /\ up' = [up EXCEPT ![u] = [live |-> TRUE, ptr_ |-> up[other].ptr_],
                      ![other] = [live |-> TRUE, ptr_ |-> Null]]
  /\ last' = Op("umove", u, other, up[other].ptr_)
  /\ UNCHANGED <<thr, sp, wp, mem>>

\* operator=(UniquePtr&&) without the call of delete_() at line 31
UniqueMoveAssignLeak(u, other) ==
  /\ ~mem.crashed
  /\ up[u].live
  /\ up[other].live
  /\ IF u # other
     THEN /\ mem' = mem
          /\ up' = [up EXCEPT ![u] = [live |-> TRUE, ptr_ |-> up[other].ptr_],
                              ![other] = [live |-> TRUE, ptr_ |-> Null]]
     ELSE mem' = mem /\ up' = up
  /\ last' = Op("umoveassign", u, other, up[other].ptr_)
  /\ UNCHANGED <<thr, sp, wp>>

\* UniquePtr& operator=(UniquePtr&& other)
UniqueMoveAssign(u, other) ==
  /\ ~mem.crashed
  /\ up[u].live
  /\ up[other].live
  /\ IF u # other
     THEN \E r \in delete_(mem, up[u]) :
            /\ mem' = r[1]
            /\ up' = IF r[1].crashed THEN up
                     ELSE [up EXCEPT ![u] = [live |-> TRUE, ptr_ |-> up[other].ptr_],
                                     ![other] = [live |-> TRUE, ptr_ |-> Null]]
     ELSE mem' = mem /\ up' = up
  /\ last' = Op("umoveassign", u, other, up[other].ptr_)
  /\ UNCHANGED <<thr, sp, wp>>

\* T* get() const
UniqueGet(u) ==
  /\ ~mem.crashed
  /\ up[u].live
  /\ last' = Op("uget", 0, 0, up[u].ptr_)
  /\ UNCHANGED <<thr, sp, wp, up, mem>>

\* ------------------------------------------------------------------ Init
Init ==
  /\ sp = [s \in AllShared |-> NoHandle]
  /\ wp = [w \in WeakSlots |-> NoHandle]
  /\ up = [u \in UniqueSlots |-> NoUnique]
  /\ mem = [cnt |-> [c \in Blk |-> 0],
            cst |-> [c \in Blk |-> "unalloc"],
            cfree |-> [c \in Blk |-> 0],
            ost |-> [o \in Obj |-> "unalloc"],
            odel |-> [o \in Obj |-> 0],
            dcalls |-> [o \in Obj |-> 0],
            uaf |-> FALSE,
            crashed |-> FALSE]
  /\ last = Op("init", 0, 0, 0)
  /\ thr = [t \in Threads |-> Idle]

\* the operations on SharedPtr handles alone
NextShared ==
  \/ \E s \in SharedSlots, withObj \in BOOLEAN : SharedCtor(s, withObj)
  \/ \E s \in SharedSlots, other \in SharedSlots : SharedCopyCtor(s, other)
  \/ \E s \in SharedSlots, other \in SharedSlots : SharedCopyAssign(s, other)
  \/ \E s \in SharedSlots, other \in SharedSlots : SharedMoveCtor(s, other)
  \/ \E s \in SharedSlots, other \in SharedSlots : SharedMoveAssign(s, other)
  \/ \E s \in SharedSlots : SharedDtor(s)
  \/ \E s \in SharedSlots : SharedUseCount(s)

SpecShared == Init /\ [][NextShared]_vars

\* SharedPtr handles made by the constructor and by make_shared, whose
\* allocations can fail, and copied and destroyed
NextAlloc ==
  \/ \E s \in SharedSlots, withObj \in BOOLEAN : SharedCtor(s, withObj)
  \/ \E s \in SharedSlots, withObj \in BOOLEAN : SharedCtorBadAlloc(s, withObj)
  \/ \E s \in SharedSlots, fail \in {"none", "object", "counter"} : MakeShared(s, fail)
  \/ \E s \in SharedSlots, other \in SharedSlots : SharedCopyCtor(s, other)
  \/ \E s \in SharedSlots : SharedDtor(s)
  \/ \E s \in SharedSlots : SharedUseCount(s)

SpecAlloc == Init /\ [][NextAlloc]_vars

\* SharedPtr handles that are constructed, copied, copy-assigned, asked
\* use_count() and destroyed, and never moved
NextNoMove ==
  \/ \E s \in SharedSlots, withObj \in BOOLEAN : SharedCtor(s, withObj)
  \/ \E s \in SharedSlots, other \in SharedSlots : SharedCopyCtor(s, other)
  \/ \E s \in SharedSlots, other \in SharedSlots : SharedCopyAssign(s, other)
  \/ \E s \in SharedSlots : SharedDtor(s)
  \/ \E s \in SharedSlots : SharedUseCount(s)

SpecNoMove == Init /\ [][NextNoMove]_vars

\* the operations on WeakPtr handles
NextWeak ==
  \/ \E w \in WeakSlots : WeakDefaultCtor(w)
  \/ \E w \in WeakSlots, other \in SharedSlots : WeakFromShared(w, other)
  \/ \E w \in WeakSlots, other \in WeakSlots : WeakCopyCtor(w, other)
  \/ \E w \in WeakSlots, other \in WeakSlots : WeakAssign(w, other)
  \/ \E w \in WeakSlots : WeakDtor(w)
  \/ \E w \in WeakSlots : WeakExpired(w)
  \/ \E s \in SharedSlots, w \in WeakSlots : WeakLock(s, w)

Next == NextShared \/ NextWeak

Spec == Init /\ [][Next]_vars

\* owners that are created, copied and destroyed while observers are
\* created, copied, assigned, destroyed and asked expired()
NextObserve ==
  \/ \E s \in SharedSlots, withObj \in BOOLEAN : SharedCtor(s, withObj)
  \/ \E s \in SharedSlots, other \in SharedSlots : SharedCopyCtor(s, other)
  \/ \E s \in SharedSlots : SharedDtor(s)
  \/ \E w \in WeakSlots, other \in SharedSlots : WeakFromShared(w, other)
  \/ \E w \in WeakSlots, other \in WeakSlots : WeakCopyCtor(w, other)
  \/ \E w \in WeakSlots, other \in WeakSlots : WeakAssign(w, other)
  \/ \E w \in WeakSlots : WeakDtor(w)
  \/ \E w \in WeakSlots : WeakExpired(w)

SpecObserve == Init /\ [][NextObserve]_vars

\* the operations on UniquePtr handles
NextUnique ==
  \/ \E u \in UniqueSlots, withObj \in BOOLEAN : UniqueCtor(u, withObj)
  \/ \E u \in UniqueSlots : UniqueDtor(u)
  \/ \E u \in UniqueSlots, other \in UniqueSlots : UniqueMoveCtor(u, other)
  \/ \E u \in UniqueSlots, other \in UniqueSlots : UniqueMoveAssign(u, other)
  \/ \E u \in UniqueSlots : UniqueGet(u)

SpecUnique == Init /\ [][NextUnique]_vars

\* construction and assignment of all three handle types; a run holds at
\* most MaxLive handles at a time
LiveHandles ==
  Cardinality({s \in SharedSlots : sp[s].live})
  + Cardinality({w \in WeakSlots : wp[w].live})
  + Cardinality({u \in UniqueSlots : up[u].live})

NextAssign ==
  \/ \E s \in SharedSlots, withObj \in BOOLEAN :
       LiveHandles < MaxLive /\ SharedCtor(s, withObj)
  \/ \E s \in SharedSlots, other \in SharedSlots :
       LiveHandles < MaxLive /\ SharedCopyCtor(s, other)
  \/ \E s \in SharedSlots, other \in SharedSlots : SharedCopyAssign(s, other)
  \/ \E s \in SharedSlots, other \in SharedSlots : SharedMoveAssign(s, other)
  \/ \E w \in WeakSlots, other \in SharedSlots :
       LiveHandles < MaxLive /\ WeakFromShared(w, other)
  \/ \E w \in WeakSlots, other \in WeakSlots : WeakAssign(w, other)
  \/ \E u \in UniqueSlots, withObj \in BOOLEAN :
       LiveHandles < MaxLive /\ UniqueCtor(u, withObj)
  \/ \E u \in UniqueSlots, other \in UniqueSlots : UniqueMoveAssign(u, other)

SpecAssign == Init /\ [][NextAssign]_vars

\* --------------------------------------------------------------- threads
\* Each thread works on its own SharedPtr variables and reads the WeakPtr
\* variables, which no thread writes.  A step is one access to shared
\* storage: an atomic operation on a counter, or a delete-expression.

\* ~SharedPtr(), first step: --(*refCount_) == 0 at line 101
ConcDtorDec(t, s) ==
  /\ ~mem.crashed
  /\ thr[t].pc = "idle"
  /\ s \in OwnSlots(t)
  /\ sp[s].live
  /\ \E d \in AtomicDec(mem, sp[s].refCount_) :
       /\ mem' = d[1]
       /\ IF d[1].crashed THEN sp' = sp /\ thr' = thr
          ELSE IF d[2] = 0
          THEN sp' = sp /\ thr' = [thr EXCEPT ![t] = [pc |-> "del_ptr", s |-> s, w |-> 0]]
          ELSE sp' = [sp EXCEPT ![s] = NoHandle] /\ thr' = thr
  /\ UNCHANGED <<wp, up, last>>

\* ~SharedPtr(), second step: delete ptr_ at line 102
ConcDeletePtr(t) ==
  /\ ~mem.crashed
  /\ thr[t].pc = "del_ptr"
  /\ \E m1 \in DeleteObj(mem, sp[thr[t].s].ptr_) :
       /\ mem' = m1
       /\ thr' = IF m1.crashed THEN thr ELSE [thr EXCEPT ![t].pc = "del_cnt"]
  /\ UNCHANGED <<sp, wp, up, last>>

\* ~SharedPtr(), third step: delete refCount_ at line 103
ConcDeleteCnt(t) ==
  /\ ~mem.crashed
  /\ thr[t].pc = "del_cnt"
  /\ \E m1 \in DeleteCounter(mem, sp[thr[t].s].refCount_) :
       /\ mem' = m1
       /\ IF m1.crashed THEN sp' = sp /\ thr' = thr
          ELSE /\ sp' = [sp EXCEPT ![thr[t].s] = NoHandle]
               /\ thr' = [thr EXCEPT ![t] = Idle]
  /\ UNCHANGED <<wp, up, last>>

\* SharedPtr(const SharedPtr& other): the increment at line 62
ConcCopy(t, s, other) ==
  /\ ~mem.crashed
  /\ thr[t].pc = "idle"
  /\ s \in OwnSlots(t)
  /\ other \in OwnSlots(t)
  /\ ~sp[s].live
  /\ s = FirstFree(sp, OwnSlots(t))
  /\ sp[other].live
  /\ \E m1 \in AtomicInc(mem, sp[other].refCount_) :
       /\ mem' = m1
       /\ sp' = IF m1.crashed THEN sp ELSE [sp EXCEPT ![s] = sp[other]]
  /\ UNCHANGED <<wp, up, last, thr>>

\* s = w.lock(), first step: the call of expired() at line 124; when it
\* says expired, lock() returns SharedPtr<T>() at line 127
ConcLockCheck(t, s, w) ==
  /\ ~mem.crashed
  /\ thr[t].pc = "idle"
  /\ s \in OwnSlots(t)
  /\ ~sp[s].live
  /\ s = FirstFree(sp, OwnSlots(t))
  /\ wp[w].live
  /\ FreshBlk(mem) # Null
  /\ \E e \in expired(mem, wp[w]) :
       IF ~e[2]
       THEN /\ mem' = e[1]
            /\ sp' = sp
            /\ thr' = [thr EXCEPT ![t] = [pc |-> "lock_ctor", s |-> s, w |-> w]]
       ELSE \E r \in SharedDefault(e[1]) :
              /\ mem' = r[1]
              /\ sp' = [sp EXCEPT ![s] = r[2]]
              /\ thr' = thr
  /\ UNCHANGED <<wp, up, last>>

\* s = w.lock(), second step: return SharedPtr<T>(*this) at line 125
ConcLockCtor(t) ==
  /\ ~mem.crashed
  /\ thr[t].pc = "lock_ctor"
  /\ \E r \in SharedFromWeak(mem, wp[thr[t].w]) :
       /\ mem' = r[1]
       /\ IF r[1].crashed THEN sp' = sp /\ thr' = thr
          ELSE /\ sp' = [sp EXCEPT ![thr[t].s] = r[2]]
               /\ thr' = [thr EXCEPT ![t] = Idle]
  /\ UNCHANGED <<wp, up, last>>

\* The threads start with object 1 and its counter shared: the first
\* SharedPtr variable of some threads is attached to it, and every WeakPtr
\* observes it.
InitConc ==
  /\ \E owners \in (SUBSET Threads) \ {{}} :
       /\ sp = [s \in AllShared |->
                  IF \E t \in owners : s = (t - 1) * PerThread + 1
                  THEN [live |-> TRUE, ptr_ |-> 1, refCount_ |-> 1]
                  ELSE NoHandle]
       /\ mem = [cnt |-> [c \in Blk |-> IF c = 1 THEN Cardinality(owners) ELSE 0],
                 cst |-> [c \in Blk |-> IF c = 1 THEN "alloc" ELSE "unalloc"],
                 cfree |-> [c \in Blk |-> 0],
                 ost |-> [o \in Obj |-> IF o = 1 THEN "alloc" ELSE "unalloc"],
                 odel |-> [o \in Obj |-> 0],
                 dcalls |-> [o \in Obj |-> 0],
                 uaf |-> FALSE,
                 crashed |-> FALSE]
  /\ wp = [w \in WeakSlots |-> [live |-> TRUE, ptr_ |-> 1, refCount_ |-> 1]]
  /\ up = [u \in UniqueSlots |-> NoUnique]
  /\ last = Op("init", 0, 0, 0)
  /\ thr = [t \in Threads |-> Idle]

NextConc ==
  \/ \E t \in Threads, s \in AllShared : ConcDtorDec(t, s)
  \/ \E t \in Threads : ConcDeletePtr(t)
  \/ \E t \in Threads : ConcDeleteCnt(t)
  \/ \E t \in Threads, s \in AllShared, other \in AllShared : ConcCopy(t, s, other)
  \/ \E t \in Threads, s \in AllShared, w \in WeakSlots : ConcLockCheck(t, s, w)
  \/ \E t \in Threads : ConcLockCtor(t)

SpecConc == InitConc /\ [][NextConc]_vars

\* SharedPtr<T> s(new T) in thread t (line 58): a new object and its counter
ConcCtor(t, s) ==
  /\ ~mem.crashed
  /\ thr[t].pc = "idle"
  /\ s \in OwnSlots(t)
  /\ ~sp[s].live
  /\ s = FirstFree(sp, OwnSlots(t))
  /\ FreshObj(mem) # Null
  /\ FreshBlk(mem) # Null
  /\ LET o == FreshObj(mem)
         c == FreshBlk(mem)
     IN /\ mem' = NewCounter(NewObj(mem, o), c)
        /\ sp' = [sp EXCEPT ![s] = [live |-> TRUE, ptr_ |-> o, refCount_ |-> c]]
  /\ UNCHANGED <<wp, up, last, thr>>

\* threads that only create, copy and destroy their own SharedPtr variables
NextConcShared ==
  \/ \E t \in Threads, s \in AllShared : ConcCtor(t, s)
  \/ \E t \in Threads, s \in AllShared : ConcDtorDec(t, s)
  \/ \E t \in Threads : ConcDeletePtr(t)
  \/ \E t \in Threads : ConcDeleteCnt(t)
  \/ \E t \in Threads, s \in AllShared, other \in AllShared : ConcCopy(t, s, other)

SpecConcShared == InitConc /\ [][NextConcShared]_vars

\* ------------------------------------------------------------ properties
\* the live handles attached to counter c
AttachedShared(c) == {s \in AllShared : sp[s].live /\ sp[s].refCount_ = c}

AttachedWeak(c) == {w \in WeakSlots : wp[w].live /\ wp[w].refCount_ = c}

\* the live SharedPtr handles that point at object o
HoldersShared(o) == {s \in AllShared : sp[s].live /\ sp[s].ptr_ = o}

HoldersUnique(o) == {u \in UniqueSlots : up[u].live /\ up[u].ptr_ = o}

\* C1: under construct, copy, assign, move and destroy of SharedPtr handles,
\* the strong count of every block (what use_count() returns) is the number
\* of live SharedPtr handles attached to it; it is 1 right after
\* construction, and no handle stays attached to a block that is gone.
C1_StrongCountIsLiveHandles ==
  /\ \A c \in Blk :
       /\ mem.cst[c] = "alloc" => mem.cnt[c] = Cardinality(AttachedShared(c))
       /\ mem.cst[c] # "alloc" => AttachedShared(c) = {}
  /\ last.op = "ctor" => mem.cnt[last.ret] = 1
  /\ (last.op = "use_count" /\ ~mem.crashed) =>
       last.ret = Cardinality(AttachedShared(sp[last.a].refCount_))

\* a copy has brought a block to two attached handles and use_count() says so
C1_Witness ==
  /\ last.op = "use_count"
  /\ last.ret >= 2
  /\ \E c \in Blk : mem.cst[c] = "alloc" /\ Cardinality(AttachedShared(c)) >= 2

\* C2: the managed object is destroyed exactly once, by the release of the
\* last SharedPtr attached to its block: never twice, never while a live
\* SharedPtr still points at it, never left alive without an owner.
C2_ObjectDestroyedExactlyOnce ==
  \A o \in Obj :
    /\ mem.odel[o] <= 1
    /\ mem.ost[o] = "freed" => HoldersShared(o) = {}
    /\ (mem.ost[o] = "alloc" /\ ~mem.crashed) => HoldersShared(o) # {}

\* C3: lock() on an observer whose block has lost its last SharedPtr returns
\* a null SharedPtr; while a SharedPtr of the block is live it returns a
\* handle attached to the same block and object and the count grows by one.
C3_LockResult ==
  [][(last'.op = "lock" /\ ~mem'.crashed) =>
       LET s == last'.a
           w == last'.b
           c == wp[w].refCount_
       IN IF c # Null /\ AttachedShared(c) # {}
          THEN /\ sp'[s].live
               /\ sp'[s].refCount_ = c
               /\ sp'[s].ptr_ = wp[w].ptr_
               /\ mem'.cnt[c] = mem.cnt[c] + 1
          ELSE sp'[s].live /\ sp'[s].ptr_ = Null]_vars

\* C5: no operation touches a counter that has been freed.
C5_NoAccessToFreedCounter == ~mem.uaf

\* C6: a counter is freed exactly once, and exactly when no SharedPtr and no
\* WeakPtr is attached to it any more.
C6_BlockFreedWhenBothCountsZero ==
  \A c \in Blk :
    /\ mem.cfree[c] <= 1
    /\ mem.cst[c] = "freed" => AttachedShared(c) = {} /\ AttachedWeak(c) = {}
    /\ (mem.cst[c] = "alloc" /\ ~mem.crashed) =>
         AttachedShared(c) # {} \/ AttachedWeak(c) # {}

\* the weak count block c records: the block is one std::atomic<int>
\* holding the strong count, and no WeakPtr operation writes to it, so the
\* number of observers it records is 0
weak_count(m, c) == 0

\* C7: the weak count of every block is the number of live WeakPtr handles
\* attached to it.
C7_WeakCountIsLiveObservers ==
  \A c \in Blk :
    mem.cst[c] # "unalloc" => weak_count(mem, c) = Cardinality(AttachedWeak(c))

\* C8: expired() returns true exactly when the observer holds no block or
\* the strong count of its block is 0.
C8_ExpiredResult ==
  last.op = "expired" =>
    LET c == wp[last.a].refCount_
    IN last.ret = (c = Null \/ mem.cnt[c] = 0)

\* C9: a move leaves the source empty and the destination with the source's
\* object, calling no deleter; destroying an empty handle calls no deleter;
\* an object a live handle holds has not been released.
C9_MoveLeavesSourceEmpty ==
  [][/\ (last'.op = "umove" \/ (last'.op = "umoveassign" /\ last'.a # last'.b)) =>
          /\ up'[last'.b].ptr_ = Null
          /\ up'[last'.a].ptr_ = up[last'.b].ptr_
          /\ up[last'.b].ptr_ # Null => mem'.dcalls[up[last'.b].ptr_] = 0
     /\ (last'.op = "udtor" /\ last'.b = Null) => mem' = mem
     /\ \A u \in UniqueSlots :
          (up'[u].live /\ up'[u].ptr_ # Null) =>
             /\ mem'.ost[up'[u].ptr_] = "alloc"
             /\ mem'.dcalls[up'[u].ptr_] = 0]_vars

\* the source of a move that carried an object has been destroyed, and the
\* destination still holds the object
C9_Witness ==
  /\ last.op = "udtor"
  /\ last.ret = 1
  /\ last.b = Null
  /\ \E u \in UniqueSlots :
       up[u].live /\ up[u].ptr_ # Null /\ mem.ost[up[u].ptr_] = "alloc"

BeingDestroyed == {thr[t].s : t \in {u \in Threads : thr[u].pc \in {"del_ptr", "del_cnt"}}}

\* C4: in every interleaving of lock() with the release of the last
\* SharedPtr, a counter is never incremented from 0, and the object of every
\* handle that is not being destroyed (a handle lock() returned among them)
\* is alive.
C4_LockRaceFree ==
  [][/\ \A c \in Blk :
          (mem.cst[c] = "alloc" /\ mem'.cnt[c] = mem.cnt[c] + 1) => mem.cnt[c] >= 1
     /\ \A s \in AllShared \ BeingDestroyed' :
          (sp'[s].live /\ sp'[s].ptr_ # Null) => mem'.ost[sp'[s].ptr_] = "alloc"]_vars

\* the heap cells a step takes from the allocator, and those it gives back
Acquired ==
  Cardinality({o \in Obj : mem.ost[o] = "unalloc" /\ mem'.ost[o] # "unalloc"})
  + Cardinality({c \in Blk : mem.cst[c] = "unalloc" /\ mem'.cst[c] # "unalloc"})

Released ==
  Cardinality({o \in Obj : mem.ost[o] = "alloc" /\ mem'.ost[o] = "freed"})
  + Cardinality({c \in Blk : mem.cst[c] = "alloc" /\ mem'.cst[c] = "freed"})

\* the heap cells in use
InUse(m) ==
  Cardinality({o \in Obj : m.ost[o] = "alloc"}) + Cardinality({c \in Blk : m.cst[c] = "alloc"})

\* C11: make_shared takes one cell from the allocator, which holds the
\* object and its count, and returns a SharedPtr with strong count 1; the
\* release of the object gives one cell back.
C11_MakeSharedOneAllocation ==
  [][/\ last'.op = "make_shared" =>
          /\ Acquired = 1
          /\ sp'[last'.a].live
          /\ mem'.cnt[sp'[last'.a].refCount_] = 1
     /\ (\E o \in Obj : mem.ost[o] = "alloc" /\ mem'.ost[o] = "freed") => Released = 1]_vars

\* C15: when an allocation fails in make_shared or in SharedPtr(T*), the
\* heap is as it was before the call: every cell acquired on the way has
\* been released, and no handle and no counter has appeared.
C15_AllocationFailureLeavesNothing ==
  [][last'.op \in {"ctor_bad_alloc", "make_shared_bad_alloc"} =>
       /\ InUse(mem') = InUse(mem)
       /\ mem'.cst = mem.cst
       /\ sp' = sp]_vars

\* C12: a move construction or a move assignment (to another handle)
\* completes, gives the destination the source's object and counter
\* pointers, leaves both pointers of the source null, and performs no
\* increment or decrement for the transfer: the count of the transferred
\* block changes only by the destination's release of its own previous share.
C12_MoveTransfers ==
  [][(last'.op = "move" \/ (last'.op = "moveassign" /\ last'.a # last'.b)) =>
       LET d == last'.a
           src == last'.b
           c == sp[src].refCount_
       IN /\ ~mem'.crashed
          /\ sp'[d].live
          /\ sp'[d].ptr_ = sp[src].ptr_
          /\ sp'[d].refCount_ = c
          /\ sp'[src].ptr_ = Null
          /\ sp'[src].refCount_ = Null
          /\ c # Null =>
               mem'.cnt[c] = mem.cnt[c]
                             - (IF sp[d].live /\ sp[d].refCount_ = c THEN 1 ELSE 0)]_vars

\* C13: the destructor of a SharedPtr whose object pointer is null (a
\* moved-from or default-constructed handle) leaves every counter and every
\* object as they are; the destructor of any other SharedPtr decrements the
\* count of its block by one.
C13_NullDestructionTouchesNothing ==
  [][last'.op = "dtor" =>
       LET s == last'.a
           c == sp[s].refCount_
       IN IF sp[s].ptr_ = Null
          THEN mem' = mem /\ ~sp'[s].live
          ELSE /\ ~sp'[s].live
               /\ mem'.cnt[c] = mem.cnt[c] - 1]_vars

\* C14: assigning or move-assigning a handle to itself changes no handle,
\* no counter and no object, whatever the handle holds.
C14_SelfAssignmentIsNoOp ==
  [][(/\ last'.op \in {"assign", "moveassign", "wassign", "umoveassign"}
      /\ last'.a = last'.b) =>
       /\ sp' = sp
       /\ wp' = wp
       /\ up' = up
       /\ mem' = mem]_vars

\* a self-assignment of the only owner of an object, of a moved-from
\* SharedPtr, of an observer and of a UniquePtr that owns an object
C14_Witness ==
  /\ last.op \in {"assign", "moveassign"}
  /\ last.a = last.b
  /\ sp[last.a].ptr_ # Null
  /\ mem.cnt[sp[last.a].refCount_] = 1
  /\ mem.ost[sp[last.a].ptr_] = "alloc"

\* the threads that are between the decrement to 0 and the end of the
\* destructor
Destroying(c) ==
  {t \in Threads : thr[t].pc \in {"del_ptr", "del_cnt"} /\ sp[thr[t].s].refCount_ = c}

\* C16: in every interleaving of threads that copy and destroy their own
\* handles of one block, the count is the number of handles not yet given up
\* (no update is lost), only the thread whose decrement reached 0 deletes,
\* the object is deleted at most once and never while a handle is still
\* held, and it has been deleted exactly once when every handle is gone.
C16_ConcurrentCountsExact ==
  /\ ~mem.uaf
  /\ ~mem.crashed
  /\ \A c \in Blk :
       /\ Cardinality(Destroying(c)) <= 1
       /\ Destroying(c) # {} => mem.cnt[c] = 0
       /\ mem.cst[c] = "alloc" =>
            mem.cnt[c] = Cardinality(AttachedShared(c) \ BeingDestroyed)
       /\ mem.cst[c] = "freed" => AttachedShared(c) = {}
       /\ mem.cfree[c] <= 1
  /\ \A o \in Obj :
       /\ mem.odel[o] <= 1
       /\ mem.ost[o] = "freed" =>
            /\ mem.odel[o] = 1
            /\ \A s \in AllShared \ BeingDestroyed : ~(sp[s].live /\ sp[s].ptr_ = o)
       /\ mem.ost[o] = "alloc" => \E s \in AllShared : sp[s].live /\ sp[s].ptr_ = o

\* a thread deletes the object through a copy it made, after every other
\* handle of every thread has been destroyed
C16_Witness ==
  /\ \E t \in Threads :
       /\ thr[t].pc = "del_cnt"
       /\ thr[t].s # (t - 1) * PerThread + 1
       /\ \A s \in AllShared : s # thr[t].s => ~sp[s].live
  /\ mem.ost[1] = "freed"
  /\ mem.odel[1] = 1

\* C17: constructing a WeakPtr from a SharedPtr, copying or assigning a
\* WeakPtr and calling expired() change no strong count, no owner, and
\* neither allocate nor free an object or a counter; and an observer keeps
\* nothing alive: the destructor of the last owner of an object deletes the
\* object whether or not a WeakPtr still observes it.
C17_ObserversLeaveOwnership ==
  [][/\ last'.op \in {"wfromshared", "wcopy", "wassign", "expired"} =>
          /\ mem'.cnt = mem.cnt
          /\ mem'.ost = mem.ost
          /\ mem'.cst = mem.cst
          /\ mem'.odel = mem.odel
          /\ sp' = sp
     /\ (/\ last'.op = "dtor"
         /\ sp[last'.a].ptr_ # Null
         /\ mem.cst[sp[last'.a].refCount_] = "alloc"
         /\ mem.cnt[sp[last'.a].refCount_] = 1) =>
          mem'.ost[sp[last'.a].ptr_] = "freed"]_vars

\* a WeakPtr is made from the only owner of a live object
C17_Witness ==
  /\ last.op = "wfromshared"
  /\ \E w \in WeakSlots, s \in SharedSlots :
       /\ wp[w].live
       /\ sp[s].live
       /\ wp[w].refCount_ = sp[s].refCount_
       /\ sp[s].ptr_ # Null
       /\ mem.ost[sp[s].ptr_] = "alloc"
       /\ mem.cnt[sp[s].refCount_] = 1

\* C18: copy-assigning b to a different SharedPtr a completes, gives up a's
\* share of its old block (the block and a's old object are freed when a was
\* the last owner, otherwise its count drops by one), adds one to the count
\* of b's block, and leaves a equal to b; when a and b already shared a block
\* the decrement and the increment cancel.
C18_CopyAssignReleasesThenAttaches ==
  [][(last'.op = "assign" /\ last'.a # last'.b) =>
       LET a == last'.a
           b == last'.b
           ca == sp[a].refCount_
           cb == sp[b].refCount_
       IN /\ ~mem'.crashed
          /\ sp'[a] = sp[b]
          /\ sp'[b] = sp[b]
          /\ ca # cb =>
               /\ IF mem.cnt[ca] = 1
                  THEN /\ mem'.cst[ca] = "freed"
                       /\ sp[a].ptr_ # Null => mem'.ost[sp[a].ptr_] = "freed"
                  ELSE mem'.cnt[ca] = mem.cnt[ca] - 1
               /\ mem'.cnt[cb] = mem.cnt[cb] + 1
          /\ ca = cb => mem'.cnt[ca] = mem.cnt[ca]]_vars

\* C19: move-assigning onto a non-empty UniquePtr calls the deleter exactly
\* once, on the object the destination held and on no other; destroying a
\* non-empty UniquePtr calls it exactly once on its object and ends the
\* handle; on an empty handle (destroyed, or the destination of a move
\* assignment) no deleter call is made; no object receives a second call,
\* and an object that has received none is still held by a handle.
C19_DeleterOnEveryExitPath ==
  [][/\ (last'.op = "umoveassign" /\ last'.a # last'.b) =>
          LET old == up[last'.a].ptr_
          IN /\ up'[last'.a].ptr_ = up[last'.b].ptr_
             /\ \A o \in Obj :
                  mem'.dcalls[o] = mem.dcalls[o] + (IF o = old THEN 1 ELSE 0)
     /\ last'.op = "udtor" =>
          /\ ~up'[last'.a].live
          /\ \A o \in Obj :
               mem'.dcalls[o] = mem.dcalls[o] + (IF o = up[last'.a].ptr_ THEN 1 ELSE 0)
     /\ \A o \in Obj :
          /\ mem'.dcalls[o] <= 1
          /\ mem'.ost[o] = "freed" => mem'.dcalls[o] = 1
          /\ mem'.ost[o] = "alloc" =>
               /\ mem'.dcalls[o] = 0
               /\ \E u \in UniqueSlots : up'[u].live /\ up'[u].ptr_ = o]_vars

\* a move assignment has replaced an object: the replaced object has had its
\* one deleter call and the destination holds the transferred object, which
\* has had none
C19_Witness ==
  /\ last.op = "umoveassign"
  /\ last.a # last.b
  /\ last.ret # Null
  /\ up[last.a].ptr_ = last.ret
  /\ up[last.b].ptr_ = Null
  /\ mem.dcalls[last.ret] = 0
  /\ \E o \in Obj \ {last.ret} : mem.ost[o] = "freed" /\ mem.dcalls[o] = 1

\* C20: the constructor allocates a counter set to 1 also when it is given
\* no object, and use_count() on such a handle returns the number of handles
\* on that counter (1 for the handle alone); without moves no counter is
\* freed twice, a counter is allocated exactly while a handle is attached to
\* it (none leaked, none freed early), and a counter whose handles are all
\* destroyed or assigned over has been freed once.
C20_EveryCounterFreedOnce ==
  [][/\ last'.op = "ctor" =>
          /\ mem.cst[last'.ret] = "unalloc"
          /\ mem'.cst[last'.ret] = "alloc"
          /\ mem'.cnt[last'.ret] = 1
     /\ last'.op = "use_count" =>
          last'.ret = Cardinality(AttachedShared(sp[last'.a].refCount_))
     /\ ~mem'.crashed
     /\ ~mem'.uaf
     /\ \A c \in Blk :
          /\ mem'.cfree[c] <= 1
          /\ mem'.cst[c] = "alloc" <=>
               \E s \in SharedSlots : sp'[s].live /\ sp'[s].refCount_ = c
          /\ mem'.cst[c] = "freed" <=> mem'.cfree[c] = 1]_vars

\* use_count() has returned 1 for a handle without an object, after the
\* counter of another handle without an object has been freed
C20_Witness ==
  /\ last.op = "use_count"
  /\ sp[last.a].ptr_ = Null
  /\ last.ret = 1
  /\ \E c \in Blk : mem.cst[c] = "freed" /\ mem.cfree[c] = 1
  /\ \A o \in Obj : mem.ost[o] # "freed"

====
